---- MODULE Spec2Model ----
(***************************************************************************)
(* Model of the benchmark figure generator (src/figures): the loader       *)
(* read_data, the bandwidth derivation of get.py and put.py, the chart     *)
(* functions, the writer save_plot and the driver main.                    *)
(*                                                                         *)
(* Numbers are exact rationals <<n, d>> in lowest terms with d > 0.  The   *)
(* IEEE values a division by zero produces are kept as <<1, 0>> (inf),     *)
(* <<-1, 0>> (-inf) and <<0, 0>> (NaN).  Floating-point rounding is not    *)
(* modelled in the bandwidths and the bar heights; the labels of the sync   *)
(* chart are printed from doubles.                                          *)
(***************************************************************************)
EXTENDS Integers, Sequences, FiniteSets, TLC

VARIABLES
    data,       \* the CSV files under data/: path -> "missing" | "malformed" | table
    dirs,       \* the directories that exist under the working directory
    figures,    \* the files under figures/: path -> chart
    pc,         \* the driver's position in main()
    written,    \* the paths save_plot wrote in this run, in order
    loads,      \* the paths read_data was called with in this run, in order
    invoked,    \* the generate_plots functions main() entered, in order
    styled,     \* how many times setup_style ran
    before,     \* the paths figures/ held when the run started
    tbl,        \* deriver harness: the table the deriver is applied to
    tbl0,       \* deriver harness: the table as it was loaded
    gen,        \* deriver harness: whose deriver is applied, "get" or "put"
    applied,    \* deriver harness: how many times the deriver was applied
    dexc        \* deriver harness: the exception of the last application

vars == <<data, dirs, figures, pc, written, loads, invoked, styled, before,
          tbl, tbl0, gen, applied, dexc>>

driverVars == <<data, dirs, figures, pc, written, loads, invoked, styled, before>>
deriverVars == <<tbl, tbl0, gen, applied, dexc>>

----------------------------------------------------------------------------
(* Bounds *)

MaxRows == 2
MaxApply == 2

----------------------------------------------------------------------------
(* Exact arithmetic *)

Abs(n) == IF n < 0 THEN -n ELSE n

Sgn(n) == IF n < 0 THEN -1 ELSE IF n = 0 THEN 0 ELSE 1

RECURSIVE Gcd(_, _)
Gcd(a, b) == IF b = 0 THEN a ELSE Gcd(b, a % b)

\* n/d in lowest terms, the sign in the numerator; d = 0 gives inf, -inf or NaN.
Rat(n, d) ==
    IF d = 0 THEN <<Sgn(n), 0>>
    ELSE LET g == Gcd(Abs(n), Abs(d))
             s == Sgn(d)
         IN  <<(s * n) \div g, (s * d) \div g>>

IsFinite(a) == a[2] # 0

\* a / b as numpy's true division computes it for finite operands:
\* x/0 is inf with the sign of x, 0/0 is NaN.
RatDiv(a, b) ==
    IF b[1] = 0 THEN <<Sgn(a[1]), 0>>
    ELSE Rat(a[1] * b[2], a[2] * b[1])

\* a * k for a finite k > 0: inf, -inf and NaN stay what they are.
RatMul(a, k) ==
    IF ~IsFinite(a) THEN a
    ELSE Rat(a[1] * k[1], a[2] * k[2])

RatAdd(a, b) == Rat(a[1] * b[2] + b[1] * a[2], a[2] * b[2])

\* The value of the decimal literal 0.d1 d2 ... dn.
RECURSIVE DecimalFraction(_)
DecimalFraction(digits) ==
    IF digits = <<>> THEN <<0, 1>>
    ELSE RatDiv(RatAdd(<<Head(digits), 1>>, DecimalFraction(Tail(digits))),
                <<10, 1>>)

\* The literal cut to six digits, 0.953674.
FACTOR_truncated == DecimalFraction(<<9, 5, 3, 6, 7, 4>>)

\* The literal 0.95367431640625 of get.py:125-127 and put.py:125-127.
FACTOR == DecimalFraction(<<9, 5, 3, 6, 7, 4, 3, 1, 6, 4, 0, 6, 2, 5>>)

----------------------------------------------------------------------------
(* Tables: a pandas DataFrame is its ordered column index and, per column, *)
(* the sequence of its values.                                             *)

Range(s) == {s[i] : i \in 1..Len(s)}

SIZE == "Msg Size (b)"

Impls == <<"C", "RS", "Py">>

RawCol(impl) == impl \o " (raw, us)"
UpperCol(impl) == impl \o " MiBPS"
LowerCol(impl) == impl \o " mibps"

Columns(df) == Range(df.columns)

\* df[name] = values: an existing column keeps its place, a new one is appended.
SetCol(df, name, values) ==
    [columns |-> IF name \in Columns(df) THEN df.columns
                 ELSE Append(df.columns, name),
     nrows   |-> df.nrows,
     col     |-> [c \in Columns(df) \cup {name} |->
                     IF c = name THEN values ELSE df.col[c]]]

\* df["Msg Size (b)"] / df[latency] * 0.95367431640625, row by row.
Bandwidth(df, latency) ==
    [i \in 1..df.nrows |->
        RatMul(RatDiv(df.col[SIZE][i], df.col[latency][i]), FACTOR)]

\* One of the three assignments of the derivation: the two lookups raise
\* KeyError before anything is assigned.
AssignBandwidth(st, impl) ==
    IF st.exc # "none" THEN st
    ELSE IF SIZE \notin Columns(st.df) \/ RawCol(impl) \notin Columns(st.df)
         THEN [st EXCEPT !.exc = "KeyError"]
         ELSE [st EXCEPT !.df = SetCol(st.df, UpperCol(impl),
                                       Bandwidth(st.df, RawCol(impl)))]

ComputeBandwidth(df) ==
    AssignBandwidth(AssignBandwidth(AssignBandwidth(
        [df |-> df, exc |-> "none"], "C"), "RS"), "Py")

\* A deriver that converts the units of a column it finds instead of leaving it.
get_derive_rescaling(df) ==
    IF UpperCol("C") \notin Columns(df)
    THEN ComputeBandwidth(df)
    ELSE [df  |-> SetCol(df, UpperCol("C"),
                         [i \in 1..df.nrows |-> RatMul(df.col[UpperCol("C")][i], FACTOR)]),
          exc |-> "none"]

\* get.py:122-127
get_derive(df) ==
    IF UpperCol("C") \notin Columns(df)
    THEN ComputeBandwidth(df)
    ELSE [df |-> df, exc |-> "none"]

\* put.py:122-127
put_derive(df) ==
    IF UpperCol("C") \notin Columns(df) /\ LowerCol("C") \notin Columns(df)
    THEN ComputeBandwidth(df)
    ELSE [df |-> df, exc |-> "none"]

\* get.py:151,163,175: the columns generate_bandwidth_plot_with_scale plots.
get_bw_columns(df) == [impl \in Range(Impls) |-> UpperCol(impl)]

\* put.py:130-132
put_bw_columns(df) ==
    [impl \in Range(Impls) |->
        IF LowerCol(impl) \in Columns(df) THEN LowerCol(impl) ELSE UpperCol(impl)]

----------------------------------------------------------------------------
(* The loader, utils.py:156-176 *)

None == [none |-> TRUE]

Missing == [kind |-> "missing"]
Malformed == [kind |-> "malformed"]
Csv(df) == [kind |-> "csv", table |-> df]

\* os.path.join("data", directory, filename)
DataPath(filename, directory) == "data/" \o directory \o "/" \o filename

\* An empty DataFrame.
EmptyFrame == [columns |-> <<>>, nrows |-> 0, col |-> [c \in {} |-> <<>>]]

\* A loader that answers a failed read with an empty table instead of None.
read_data_empty_frame(filename, directory) ==
    LET file == data[DataPath(filename, directory)]
    IN  IF file.kind = "csv" THEN file.table ELSE EmptyFrame

\* pd.read_csv raises for a file that is missing or cannot be parsed; the
\* except clause turns every exception into None.
read_data(filename, directory) ==
    LET file == data[DataPath(filename, directory)]
    IN  IF file.kind = "csv" THEN file.table ELSE None

----------------------------------------------------------------------------
(* The writer, utils.py:196-211.  A world w is the part of the state a    *)
(* chart function reads and writes: dirs, figures, written, loads, exc.    *)

\* os.makedirs(path, exist_ok=True) for a path of one or two components.
makedirs(ds, parent, path) == ds \cup {parent, path}

\* A writer that leaves a file alone when one of that name exists.
save_plot_keep_existing(w, fig, filename, category) ==
    LET category_dir == "figures/" \o category
        filepath     == category_dir \o "/" \o filename
    IN  [w EXCEPT
            !.dirs    = makedirs(w.dirs, "figures", category_dir),
            !.figures = [p \in DOMAIN w.figures \cup {filepath} |->
                            IF p \in DOMAIN w.figures THEN w.figures[p] ELSE fig],
            !.written = Append(w.written, filepath)]

save_plot(w, fig, filename, category) ==
    LET category_dir == "figures/" \o category
        filepath     == category_dir \o "/" \o filename
    IN  [w EXCEPT
            !.dirs    = makedirs(w.dirs, "figures", category_dir),
            !.figures = [p \in DOMAIN w.figures \cup {filepath} |->
                            IF p = filepath THEN fig ELSE w.figures[p]],
            !.written = Append(w.written, filepath)]

Raise(w, e) == [w EXCEPT !.exc = e]

----------------------------------------------------------------------------
(* get.py *)

\* A suffix without its separator.
scale_suffix_bare(scale) == IF scale = "log" THEN "log" ELSE "linear"

\* get.py:91, put.py:91: "_log" if scale == "log" else "_linear"
scale_suffix(scale) == IF scale = "log" THEN "_log" ELSE "_linear"

\* The three ax.plot calls of a latency or bandwidth chart: every df[...]
\* lookup raises KeyError when the column is missing.
LineChart(df, title, scale, cols) ==
    [title |-> title, yscale |-> scale,
     x  |-> df.col[SIZE],
     c  |-> df.col[cols["C"]],
     rs |-> df.col[cols["RS"]],
     py |-> df.col[cols["Py"]]]

CanPlot(df, cols) ==
    {SIZE, cols["C"], cols["RS"], cols["Py"]} \subseteq Columns(df)

RawCols == [impl \in Range(Impls) |-> RawCol(impl)]

\* get.py:37-92
get_generate_latency_plot_with_scale(w, df, output_prefix, scale) ==
    IF w.exc # "none" THEN w
    ELSE IF ~CanPlot(df, RawCols) THEN Raise(w, "KeyError")
    ELSE save_plot(w, LineChart(df, "shmem_get Latency", scale, RawCols),
                   "get_" \o output_prefix \o "_latency" \o scale_suffix(scale) \o ".pdf",
                   "get")

\* get.py:25-34
get_generate_latency_plot(w, filename, directory, output_prefix) ==
    LET df == read_data(filename, directory)
        w1 == [w EXCEPT !.loads = Append(w.loads, DataPath(filename, directory))]
    IN  IF df = None THEN w1
        ELSE get_generate_latency_plot_with_scale(
                 get_generate_latency_plot_with_scale(w1, df, output_prefix, "linear"),
                 df, output_prefix, "log")

\* get.py:136-191
get_generate_bandwidth_plot_with_scale(w, df, output_prefix, scale) ==
    IF w.exc # "none" THEN w
    ELSE IF ~CanPlot(df, get_bw_columns(df)) THEN Raise(w, "KeyError")
    ELSE save_plot(w, LineChart(df, "shmem_get Bandwidth", scale, get_bw_columns(df)),
                   "get_" \o output_prefix \o "_bandwidth" \o scale_suffix(scale) \o ".pdf",
                   "get")

\* generate_bandwidth_plot without its "if df is None: return": df.columns of
\* None raises AttributeError.
get_generate_bandwidth_plot_unguarded(w, filename, directory, output_prefix) ==
    LET df == read_data(filename, directory)
        w1 == [w EXCEPT !.loads = Append(w.loads, DataPath(filename, directory))]
    IN  IF df = None THEN Raise(w1, "AttributeError")
        ELSE LET d == get_derive(df)
             IN  IF d.exc # "none" THEN Raise(w1, d.exc)
                 ELSE get_generate_bandwidth_plot_with_scale(
                          get_generate_bandwidth_plot_with_scale(
                              w1, d.df, output_prefix, "linear"),
                          d.df, output_prefix, "log")

\* get.py:116-133
get_generate_bandwidth_plot(w, filename, directory, output_prefix) ==
    LET df == read_data(filename, directory)
        w1 == [w EXCEPT !.loads = Append(w.loads, DataPath(filename, directory))]
    IN  IF df = None THEN w1
        ELSE LET d == get_derive(df)
             IN  IF d.exc # "none" THEN Raise(w1, d.exc)
                 ELSE get_generate_bandwidth_plot_with_scale(
                          get_generate_bandwidth_plot_with_scale(
                              w1, d.df, output_prefix, "linear"),
                          d.df, output_prefix, "log")

\* generate_plots with the internode calls left with the prefix "local".
get_calls_same_prefix ==
    << [fn |-> "latency",   filename |-> "bw_shmem_get.csv", directory |-> "intranode", prefix |-> "local"],
       [fn |-> "bandwidth", filename |-> "bw_shmem_get.csv", directory |-> "intranode", prefix |-> "local"],
       [fn |-> "latency",   filename |-> "bw_shmem_get.csv", directory |-> "internode", prefix |-> "local"],
       [fn |-> "bandwidth", filename |-> "bw_shmem_get.csv", directory |-> "internode", prefix |-> "local"] >>

\* get.py:219-225
get_calls ==
    << [fn |-> "latency",   filename |-> "bw_shmem_get.csv", directory |-> "intranode", prefix |-> "local"],
       [fn |-> "bandwidth", filename |-> "bw_shmem_get.csv", directory |-> "intranode", prefix |-> "local"],
       [fn |-> "latency",   filename |-> "bw_shmem_get.csv", directory |-> "internode", prefix |-> "net"],
       [fn |-> "bandwidth", filename |-> "bw_shmem_get.csv", directory |-> "internode", prefix |-> "net"] >>

----------------------------------------------------------------------------
(* put.py *)

\* A put latency chart saved under the name and category of get's.
put_generate_latency_plot_with_scale_as_get(w, df, output_prefix, scale) ==
    IF w.exc # "none" THEN w
    ELSE IF ~CanPlot(df, RawCols) THEN Raise(w, "KeyError")
    ELSE save_plot(w, LineChart(df, "shmem_put Latency", scale, RawCols),
                   "get_" \o output_prefix \o "_latency" \o scale_suffix(scale) \o ".pdf",
                   "get")

\* put.py:37-92
put_generate_latency_plot_with_scale(w, df, output_prefix, scale) ==
    IF w.exc # "none" THEN w
    ELSE IF ~CanPlot(df, RawCols) THEN Raise(w, "KeyError")
    ELSE save_plot(w, LineChart(df, "shmem_put Latency", scale, RawCols),
                   "put_" \o output_prefix \o "_latency" \o scale_suffix(scale) \o ".pdf",
                   "put")

\* put.py:25-34
put_generate_latency_plot(w, filename, directory, output_prefix) ==
    LET df == read_data(filename, directory)
        w1 == [w EXCEPT !.loads = Append(w.loads, DataPath(filename, directory))]
    IN  IF df = None THEN w1
        ELSE put_generate_latency_plot_with_scale(
                 put_generate_latency_plot_with_scale(w1, df, output_prefix, "linear"),
                 df, output_prefix, "log")

\* put.py:143-201
put_generate_bandwidth_plot_with_scale(w, df, output_prefix, scale, cols) ==
    IF w.exc # "none" THEN w
    ELSE IF ~CanPlot(df, cols) THEN Raise(w, "KeyError")
    ELSE save_plot(w, LineChart(df, "shmem_put Bandwidth", scale, cols),
                   "put_" \o output_prefix \o "_bandwidth" \o scale_suffix(scale) \o ".pdf",
                   "put")

\* A bandwidth chart function that reuses the table an earlier call read from
\* the same file instead of calling the loader.
put_generate_bandwidth_plot_cached(w, filename, directory, output_prefix) ==
    LET df == read_data(filename, directory)
        w1 == IF DataPath(filename, directory) \in Range(w.loads) THEN w
              ELSE [w EXCEPT !.loads = Append(w.loads, DataPath(filename, directory))]
    IN  IF df = None THEN w1
        ELSE LET d == put_derive(df)
             IN  IF d.exc # "none" THEN Raise(w1, d.exc)
                 ELSE put_generate_bandwidth_plot_with_scale(
                          put_generate_bandwidth_plot_with_scale(
                              w1, d.df, output_prefix, "linear", put_bw_columns(d.df)),
                          d.df, output_prefix, "log", put_bw_columns(d.df))

\* put.py:116-140
put_generate_bandwidth_plot(w, filename, directory, output_prefix) ==
    LET df == read_data(filename, directory)
        w1 == [w EXCEPT !.loads = Append(w.loads, DataPath(filename, directory))]
    IN  IF df = None THEN w1
        ELSE LET d == put_derive(df)
             IN  IF d.exc # "none" THEN Raise(w1, d.exc)
                 ELSE put_generate_bandwidth_plot_with_scale(
                          put_generate_bandwidth_plot_with_scale(
                              w1, d.df, output_prefix, "linear", put_bw_columns(d.df)),
                          d.df, output_prefix, "log", put_bw_columns(d.df))

\* put.py:229-235
put_calls ==
    << [fn |-> "latency",   filename |-> "bw_shmem_put.csv", directory |-> "intranode", prefix |-> "local"],
       [fn |-> "bandwidth", filename |-> "bw_shmem_put.csv", directory |-> "intranode", prefix |-> "local"],
       [fn |-> "latency",   filename |-> "bw_shmem_put.csv", directory |-> "internode", prefix |-> "net"],
       [fn |-> "bandwidth", filename |-> "bw_shmem_put.csv", directory |-> "internode", prefix |-> "net"] >>

----------------------------------------------------------------------------
(* sync.py *)

\* A label without the special case for atomic_compare_swap.
simplified_label_no_rename(routine) ==
    IF Len(routine) >= 6 /\ SubSeq(routine, 1, 6) = "shmem_"
    THEN SubSeq(routine, 7, Len(routine))
    ELSE routine

\* sync.py:61-72
simplified_label(routine) ==
    LET label == IF Len(routine) >= 6 /\ SubSeq(routine, 1, 6) = "shmem_"
                 THEN SubSeq(routine, 7, Len(routine))
                 ELSE routine
    IN  IF label = "atomic_compare_swap" THEN "atomic_cswap" ELSE label

Hundred == <<100, 1>>

(* The ratios of latency.csv are doubles, and so is their product with 100  *)
(* that the labels print.  A double is kept as m * 2^(-e) with m a natural  *)
(* number of 53 bits; natural numbers beyond 31 bits are sequences of digits *)
(* in base 1000, lowest digit first.                                        *)

BigBase == 1000

\* Factors and divisors of one step; a digit times it stays below 2^31.
SmallMax == 2000000

RECURSIVE BigOfNat(_)
BigOfNat(n) == IF n = 0 THEN <<>> ELSE <<n % BigBase>> \o BigOfNat(n \div BigBase)

RECURSIVE BigToNat(_)
BigToNat(a) == IF a = <<>> THEN 0 ELSE a[1] + BigBase * BigToNat(Tail(a))

RECURSIVE BigMulCarry(_, _, _)
BigMulCarry(a, k, carry) ==
    IF a = <<>> THEN BigOfNat(carry)
    ELSE LET t == a[1] * k + carry
         IN  <<t % BigBase>> \o BigMulCarry(Tail(a), k, t \div BigBase)

\* a * k for 0 <= k <= SmallMax
BigMulSmall(a, k) == BigMulCarry(a, k, 0)

\* a + 1
BigInc(a) == BigMulCarry(a, 1, 1)

\* Quotient and remainder of a by k, 1 <= k <= SmallMax.
RECURSIVE BigDivRem(_, _)
BigDivRem(a, k) ==
    IF a = <<>> THEN [q |-> <<>>, r |-> 0]
    ELSE LET hi == BigDivRem(Tail(a), k)
             t  == hi.r * BigBase + a[1]
         IN  [q |-> <<t \div k>> \o hi.q, r |-> t % k]

RECURSIVE BigTrim(_)
BigTrim(a) ==
    IF a # <<>> /\ a[Len(a)] = 0 THEN BigTrim(SubSeq(a, 1, Len(a) - 1)) ELSE a

RECURSIVE DigitsLess(_, _, _)
DigitsLess(a, b, i) ==
    IF i = 0 THEN FALSE
    ELSE IF a[i] # b[i] THEN a[i] < b[i]
    ELSE DigitsLess(a, b, i - 1)

\* a < b
BigLess(a, b) ==
    LET x == BigTrim(a)
        y == BigTrim(b)
    IN  IF Len(x) # Len(y) THEN Len(x) < Len(y) ELSE DigitsLess(x, y, Len(x))

BigIsOdd(a) == a # <<>> /\ a[1] % 2 = 1

RECURSIVE Pow2(_)
Pow2(s) == IF s = 0 THEN 1 ELSE 2 * Pow2(s - 1)

\* a * 2^s
RECURSIVE BigShl(_, _)
BigShl(a, s) ==
    IF s = 0 THEN a
    ELSE IF s >= 16 THEN BigShl(BigMulSmall(a, Pow2(16)), s - 16)
    ELSE BigMulSmall(a, Pow2(s))

\* Rounding of a quotient whose bits below the unit are: first bit half,
\* some later bit set sticky.  Round to nearest, ties to even.
RoundHalfEven(q, half, sticky) ==
    IF half /\ (sticky \/ BigIsOdd(q)) THEN BigInc(q) ELSE q

\* a / 2^s as quotient, first bit dropped and whether a later one is set.
RECURSIVE BigShr(_, _, _, _)
BigShr(a, s, half, sticky) ==
    IF s = 0 THEN [q |-> a, half |-> half, sticky |-> sticky]
    ELSE LET t  == IF s >= 16 THEN 16 ELSE s
             dr == BigDivRem(a, Pow2(t))
         IN  BigShr(dr.q, s - t,
                    dr.r >= Pow2(t - 1),
                    sticky \/ half \/ dr.r % Pow2(t - 1) # 0)

\* a / 2^s rounded to nearest, ties to even, s >= 0.
BigShrRound(a, s) ==
    LET x == BigShr(a, s, FALSE, FALSE)
    IN  RoundHalfEven(x.q, x.half, x.sticky)

\* The least e with x * 2^e >= lo, counted from e, for x > 0.
RECURSIVE Normalize(_, _, _)
Normalize(x, e, lo) ==
    IF BigLess(BigShl(x, 16), lo) THEN Normalize(BigShl(x, 16), e + 16, lo)
    ELSE IF BigLess(BigShl(x, 4), lo) THEN Normalize(BigShl(x, 4), e + 4, lo)
    ELSE IF BigLess(x, lo) THEN Normalize(BigShl(x, 1), e + 1, lo)
    ELSE [x |-> x, e |-> e]

\* The double nearest to the rational v (the cell pd.read_csv parsed), for
\* |v| < 2^31 with a denominator up to SmallMax.
Double(v) ==
    IF ~IsFinite(v) THEN [kind |-> IF v[1] = 0 THEN "nan" ELSE "inf", sign |-> v[1]]
    ELSE IF v[1] = 0 THEN [kind |-> "zero", sign |-> 1]
    ELSE LET nz == Normalize(BigOfNat(Abs(v[1])), 0, BigShl(BigOfNat(v[2]), 52))
             dr == BigDivRem(nz.x, v[2])
         IN  [kind |-> "finite", sign |-> Sgn(v[1]),
              m |-> RoundHalfEven(dr.q, 2 * dr.r >= v[2], 2 * dr.r > v[2]),
              e |-> nz.e]

\* The bits of p beyond 53.
RECURSIVE ExcessBits(_, _)
ExcessBits(p, s) ==
    IF BigLess(p, BigShl(BigOfNat(1), 53 + s)) THEN s ELSE ExcessBits(p, s + 1)

\* x * k in double arithmetic, for an integer 1 <= k <= SmallMax: the exact
\* product rounded to 53 bits.
DoubleTimes(x, k) ==
    IF x.kind # "finite" THEN x
    ELSE LET p == BigMulSmall(x.m, k)
             s == ExcessBits(p, 0)
         IN  [x EXCEPT !.m = BigShrRound(p, s), !.e = x.e - s]

\* |x| * scale rounded to the nearest integer, ties to even, as "%.2f" and
\* "%.1f" round the exact value of a double; for x.e >= 0.
DoubleFixed(x, scale) ==
    IF x.kind = "zero" THEN 0
    ELSE BigToNat(BigShrRound(BigMulSmall(x.m, scale), x.e))

SpecialText(x) ==
    IF x.kind = "nan" THEN "nan%" ELSE IF x.sign > 0 THEN "inf%" ELSE "-inf%"

\* The percentage with one decimal place, f"{v:.1f}%".
format_percent_one_decimal(x) ==
    IF x.kind \in {"nan", "inf"} THEN SpecialText(x)
    ELSE LET tenths == DoubleFixed(x, 10)
         IN  (IF x.sign < 0 THEN "-" ELSE "") \o ToString(tenths \div 10) \o "."
             \o ToString(tenths % 10) \o "%"

\* f"{v:.2f}%" of sync.py:160,173, v a double.
format_percent(x) ==
    IF x.kind \in {"nan", "inf"} THEN SpecialText(x)
    ELSE LET cents == DoubleFixed(x, 100)
             frac  == cents % 100
         IN  (IF x.sign < 0 THEN "-" ELSE "") \o ToString(cents \div 100) \o "."
             \o (IF frac < 10 THEN "0" ELSE "") \o ToString(frac) \o "%"

\* The label of a bar: the ratio times 100 as the code computes it, in
\* doubles (sync.py:85,96), formatted.
percent_label(ratio) == format_percent(DoubleTimes(Double(ratio), 100))

SyncCols == {"Routine", "RS (normalized)", "Py (normalized)"}

\* sync.py:43-130, with the labels of add_percentage_labels_log (133-182).
\* The bar heights are kept as the exact products; the labels are printed
\* from the double products.
generate_sync_plot_log_scale(w, df, output_prefix) ==
    IF ~(SyncCols \subseteq Columns(df)) THEN Raise(w, "KeyError")
    ELSE LET n  == df.nrows
             rs == [i \in 1..n |-> RatMul(df.col["RS (normalized)"][i], Hundred)]
             py == [i \in 1..n |-> RatMul(df.col["Py (normalized)"][i], Hundred)]
             fig == [xticklabels |-> [i \in 1..n |-> simplified_label(df.col["Routine"][i])],
                     c_bars  |-> [i \in 1..n |-> Hundred],
                     rs_bars |-> rs,
                     py_bars |-> py,
                     c_text  |-> [i \in 1..n |-> "100.00%"],
                     rs_text |-> [i \in 1..n |-> percent_label(df.col["RS (normalized)"][i])],
                     py_text |-> [i \in 1..n |-> percent_label(df.col["Py (normalized)"][i])]]
         IN  save_plot(w, fig, "sync_" \o output_prefix \o ".pdf", "sync")

\* sync.py:34-40
generate_sync_plot(w, filename, directory, output_prefix) ==
    LET df == read_data(filename, directory)
        w1 == [w EXCEPT !.loads = Append(w.loads, DataPath(filename, directory))]
    IN  IF df = None THEN w1
        ELSE generate_sync_plot_log_scale(w1, df, output_prefix)

\* sync.py:204-208
sync_calls ==
    << [fn |-> "sync", filename |-> "latency.csv", directory |-> "intranode", prefix |-> "local"],
       [fn |-> "sync", filename |-> "latency.csv", directory |-> "internode", prefix |-> "net"] >>

----------------------------------------------------------------------------
(* main.py *)

IsPrefix(s, t) == Len(s) <= Len(t) /\ SubSeq(t, 1, Len(s)) = s

\* A path is "figures" itself or lies below it.
UnderFigures(path) == path = "figures" \/ IsPrefix("figures/", path)

\* shutil.rmtree("figures", ignore_errors=True): the tree and all it holds.
rmtree_figures(w) ==
    [w EXCEPT !.dirs = {d \in w.dirs : ~UnderFigures(d)},
              !.figures = [p \in {q \in DOMAIN w.figures : ~UnderFigures(q)} |->
                              w.figures[p]]]

\* A cleanup that only creates the directory.
clean_figures_directory_keep(w) == [w EXCEPT !.dirs = w.dirs \cup {"figures"}]

\* main.py:9-20
clean_figures_directory_w(w) ==
    LET w1 == rmtree_figures(w)
    IN  [w1 EXCEPT !.dirs = w1.dirs \cup {"figures"}]

World == [dirs |-> dirs, figures |-> figures, written |-> written,
          loads |-> loads, exc |-> "none"]

\* A driver that calls sync.generate_plots before put.generate_plots.
NextPc_sync_before_put(module, i) ==
    IF module = "get" THEN (IF i < Len(get_calls) THEN <<"get", i + 1>> ELSE <<"sync", 1>>)
    ELSE IF module = "sync" THEN (IF i < Len(sync_calls) THEN <<"sync", i + 1>> ELSE <<"put", 1>>)
    ELSE (IF i < Len(put_calls) THEN <<"put", i + 1>> ELSE <<"done", 0>>)

\* The statement of main() or generate_plots() that follows the call at pc.
NextPc(module, i) ==
    IF module = "get" THEN (IF i < Len(get_calls) THEN <<"get", i + 1>> ELSE <<"put", 1>>)
    ELSE IF module = "put" THEN (IF i < Len(put_calls) THEN <<"put", i + 1>> ELSE <<"sync", 1>>)
    ELSE (IF i < Len(sync_calls) THEN <<"sync", i + 1>> ELSE <<"done", 0>>)

\* An exception no frame handles unwinds generate_plots and main.
Commit(w, module, i) ==
    /\ dirs' = w.dirs
    /\ figures' = w.figures
    /\ written' = w.written
    /\ loads' = w.loads
    /\ invoked' = IF i = 1 THEN Append(invoked, module) ELSE invoked
    /\ pc' = IF w.exc # "none" THEN <<"raised", 0>> ELSE NextPc(module, i)
    /\ UNCHANGED <<data, styled, before>>
    /\ UNCHANGED deriverVars

\* main.py:39
clean_figures_directory ==
    /\ pc = <<"main", 1>>
    /\ LET w == clean_figures_directory_w(World)
       IN  /\ dirs' = w.dirs
           /\ figures' = w.figures
    /\ pc' = <<"main", 2>>
    /\ UNCHANGED <<data, written, loads, invoked, styled, before>>
    /\ UNCHANGED deriverVars

\* main.py:42
setup_style ==
    /\ pc = <<"main", 2>>
    /\ styled' = styled + 1
    /\ pc' = <<"get", 1>>
    /\ UNCHANGED <<data, dirs, figures, written, loads, invoked, before>>
    /\ UNCHANGED deriverVars

\* main.py:45 -> get.py:220,224
get_latency ==
    /\ pc[1] = "get"
    /\ get_calls[pc[2]].fn = "latency"
    /\ LET c == get_calls[pc[2]]
       IN  Commit(get_generate_latency_plot(World, c.filename, c.directory, c.prefix),
                  "get", pc[2])

\* main.py:45 -> get.py:221,225
get_bandwidth ==
    /\ pc[1] = "get"
    /\ get_calls[pc[2]].fn = "bandwidth"
    /\ LET c == get_calls[pc[2]]
       IN  Commit(get_generate_bandwidth_plot(World, c.filename, c.directory, c.prefix),
                  "get", pc[2])

\* main.py:46 -> put.py:230,234
put_latency ==
    /\ pc[1] = "put"
    /\ put_calls[pc[2]].fn = "latency"
    /\ LET c == put_calls[pc[2]]
       IN  Commit(put_generate_latency_plot(World, c.filename, c.directory, c.prefix),
                  "put", pc[2])

\* main.py:46 -> put.py:231,235
put_bandwidth ==
    /\ pc[1] = "put"
    /\ put_calls[pc[2]].fn = "bandwidth"
    /\ LET c == put_calls[pc[2]]
       IN  Commit(put_generate_bandwidth_plot(World, c.filename, c.directory, c.prefix),
                  "put", pc[2])

\* main.py:47 -> sync.py:205,208
sync_plot ==
    /\ pc[1] = "sync"
    /\ LET c == sync_calls[pc[2]]
       IN  Commit(generate_sync_plot(World, c.filename, c.directory, c.prefix),
                  "sync", pc[2])

----------------------------------------------------------------------------
(* Inputs *)

Seqs(S, n) == UNION {[1..k -> S] : k \in 0..n}

Whole(n) == <<n, 1>>

\* Benchmark rows: the end-to-end example of the specification, a row with a
\* zero and a negative latency, a row with size and latency zero, and a row
\* with a fractional latency.
RowSet ==
    { [size |-> Whole(1024), C |-> Whole(2), RS |-> <<5, 2>>, Py |-> Whole(3)],
      [size |-> Whole(1024), C |-> Whole(0), RS |-> Whole(2),   Py |-> Whole(-1)],
      [size |-> Whole(0),    C |-> Whole(0), RS |-> Whole(1),   Py |-> <<1, 2>>],
      [size |-> Whole(2048), C |-> Whole(4), RS |-> Whole(4),   Py |-> <<1, 2>>] }

BaseCols == {SIZE} \cup {RawCol(i) : i \in Range(Impls)}
UpperCols == {UpperCol(i) : i \in Range(Impls)}
LowerCols == {LowerCol(i) : i \in Range(Impls)}

AllCols ==
    <<SIZE, RawCol("C"), RawCol("RS"), RawCol("Py"),
      UpperCol("C"), UpperCol("RS"), UpperCol("Py"),
      LowerCol("C"), LowerCol("RS"), LowerCol("Py")>>

\* The value a CSV holds in row i of column c.  Precomputed bandwidth columns
\* hold values the derivation never produces (700 + i and 900 + i).
Cell(rows, c, i) ==
    IF c = SIZE THEN rows[i].size
    ELSE IF c \in UpperCols THEN Whole(700 + i)
    ELSE IF c \in LowerCols THEN Whole(900 + i)
    ELSE IF c = RawCol("C") THEN rows[i].C
    ELSE IF c = RawCol("RS") THEN rows[i].RS
    ELSE rows[i].Py

\* The table pd.read_csv returns for a CSV with the columns cols and the rows.
MakeTable(rows, cols) ==
    [columns |-> SelectSeq(AllCols, LAMBDA c : c \in cols),
     nrows   |-> Len(rows),
     col     |-> [c \in cols |-> [i \in 1..Len(rows) |-> Cell(rows, c, i)]]]

SampleRows ==
    << [size |-> Whole(1024), C |-> Whole(2), RS |-> <<5, 2>>, Py |-> Whole(3)],
       [size |-> Whole(2048), C |-> Whole(4), RS |-> Whole(4),   Py |-> <<1, 2>>] >>

T_plain   == MakeTable(SampleRows, BaseCols)
T_lower   == MakeTable(SampleRows, BaseCols \cup LowerCols)
T_partial == MakeTable(SampleRows, BaseCols \cup {UpperCol("C")})
T_nocol   == MakeTable(SampleRows, BaseCols \ {RawCol("C")})

\* The sync table: the ratios 0.12345 and 1.23455 times 100 are decimal ties
\* at the third decimal, which the doubles decide one up and one down.
S_ok ==
    [columns |-> <<"Routine", "C (raw, us)", "RS (normalized)", "Py (normalized)">>,
     nrows   |-> 5,
     col     |-> [c \in {"Routine", "C (raw, us)", "RS (normalized)", "Py (normalized)"} |->
                    IF c = "Routine"
                    THEN <<"shmem_barrier_all", "shmem_atomic_compare_swap", "quiet",
                           "shmem_shmem_quiet", "atomic_compare_swap">>
                    ELSE IF c = "C (raw, us)"
                    THEN <<Whole(2), Whole(3), Whole(1), Whole(1), Whole(3)>>
                    ELSE IF c = "RS (normalized)"
                    THEN <<<<27, 20>>, <<1, 1>>, <<2469, 20000>>, <<1, 2>>, <<2, 1>>>>
                    ELSE <<<<4, 5>>, <<5, 2>>, <<1, 3>>, <<24691, 20000>>, <<1, 1>>>>]]

S_nocol ==
    [columns |-> <<"Routine", "C (raw, us)", "RS (normalized)">>,
     nrows   |-> S_ok.nrows,
     col     |-> [c \in {"Routine", "C (raw, us)", "RS (normalized)"} |-> S_ok.col[c]]]

GetPutFiles == {Missing, Malformed, Csv(T_plain), Csv(T_lower),
                Csv(T_partial), Csv(T_nocol)}
SyncFiles == {Missing, Csv(S_ok), Csv(S_nocol)}

Directories == {"intranode", "internode"}
GetPutPaths == {DataPath(f, d) : f \in {"bw_shmem_get.csv", "bw_shmem_put.csv"},
                                 d \in Directories}
SyncPaths == {DataPath("latency.csv", d) : d \in Directories}

Stale == [stale |-> TRUE]
NoFiles == [p \in {} |-> Stale]

\* What figures/ holds before a run: nothing (no directory), or files an
\* earlier run left, one of them under a name this run may write.
StaleTrees ==
    { [dirs |-> {}, figures |-> NoFiles],
      [dirs |-> {"figures", "figures/get", "figures/old"},
       figures |-> [p \in {"figures/get/get_local_latency_log.pdf",
                           "figures/old/sync_all.pdf"} |-> Stale]] }

----------------------------------------------------------------------------
(* The driver *)

DeriverIdle ==
    /\ tbl = T_plain
    /\ tbl0 = T_plain
    /\ gen = "get"
    /\ applied = 0
    /\ dexc = "none"

Init ==
    /\ data \in [GetPutPaths \cup SyncPaths ->
                    GetPutFiles \cup SyncFiles]
    /\ \A p \in GetPutPaths : data[p] \in GetPutFiles
    /\ \A p \in SyncPaths : data[p] \in SyncFiles
    /\ \E t \in StaleTrees : dirs = t.dirs /\ figures = t.figures
    /\ before = DOMAIN figures
    /\ pc = <<"main", 1>>
    /\ written = <<>>
    /\ loads = <<>>
    /\ invoked = <<>>
    /\ styled = 0
    /\ DeriverIdle

Next ==
    \/ clean_figures_directory
    \/ setup_style
    \/ get_latency
    \/ get_bandwidth
    \/ put_latency
    \/ put_bandwidth
    \/ sync_plot

Spec == Init /\ [][Next]_vars

----------------------------------------------------------------------------
(* The metric deriver applied to one table, once and again *)

DriverIdle ==
    /\ data = [p \in GetPutPaths \cup SyncPaths |-> Missing]
    /\ dirs = {}
    /\ figures = NoFiles
    /\ before = {}
    /\ pc = <<"idle", 0>>
    /\ written = <<>>
    /\ loads = <<>>
    /\ invoked = <<>>
    /\ styled = 0

\* The base columns a loaded table may have: all, or all but one.
BaseOptions == {BaseCols, BaseCols \ {SIZE}, BaseCols \ {RawCol("RS")}}

InitDeriver ==
    /\ DriverIdle
    /\ \E rows \in Seqs(RowSet, MaxRows), base \in BaseOptions,
          bw \in SUBSET (UpperCols \cup LowerCols) :
          /\ tbl0 = MakeTable(rows, base \cup bw)
          /\ tbl = tbl0
    /\ gen \in {"get", "put"}
    /\ applied = 0
    /\ dexc = "none"

\* get.py:121-127 applied to tbl
apply_get_derive ==
    /\ gen = "get"
    /\ applied < MaxApply
    /\ LET d == get_derive(tbl)
       IN  tbl' = d.df /\ dexc' = d.exc
    /\ applied' = applied + 1
    /\ UNCHANGED <<tbl0, gen>>
    /\ UNCHANGED driverVars

\* put.py:121-127 applied to tbl
apply_put_derive ==
    /\ gen = "put"
    /\ applied < MaxApply
    /\ LET d == put_derive(tbl)
       IN  tbl' = d.df /\ dexc' = d.exc
    /\ applied' = applied + 1
    /\ UNCHANGED <<tbl0, gen>>
    /\ UNCHANGED driverVars

NextDeriver == apply_get_derive \/ apply_put_derive

SpecDeriver == InitDeriver /\ [][NextDeriver]_vars

----------------------------------------------------------------------------
(* Properties of the metric deriver (SpecDeriver) *)

BwCols == UpperCols \cup LowerCols

NoBandwidthColumns(df) == Columns(df) \cap BwCols = {}

\* bytes per microsecond to MiB per second: 10^6 / 2^20
MiBPerSecond == Rat(1000000, 1048576)

Positive(a) == IsFinite(a) /\ a[1] > 0

\* C1: for a table loaded with its size and latency columns and without any
\* bandwidth column, the derivation leaves,
\* in every row whose latency is > 0 and for each of C, RS and Py, the value
\* size / latency * (10^6 / 2^20) in the implementation's bandwidth column.
C1_BandwidthFormula ==
    (applied >= 1 /\ BaseCols \subseteq Columns(tbl0) /\ NoBandwidthColumns(tbl0)) =>
        \A impl \in Range(Impls) :
            /\ UpperCol(impl) \in Columns(tbl)
            /\ \A i \in 1..tbl0.nrows :
                  Positive(tbl0.col[RawCol(impl)][i]) =>
                      tbl.col[UpperCol(impl)][i] =
                          RatMul(RatDiv(tbl0.col[SIZE][i], tbl0.col[RawCol(impl)][i]),
                                 MiBPerSecond)

\* The row (1024, 2.0, 2.5, 3.0) derived: 500000/1024, 400000/1024 and
\* 1000000/3072 MiB/s.
C1_Witness ==
    /\ applied = 1
    /\ BaseCols \subseteq Columns(tbl0)
    /\ NoBandwidthColumns(tbl0)
    /\ tbl0.nrows = 1
    /\ tbl0.col[SIZE][1] = Whole(1024)
    /\ UpperCols \subseteq Columns(tbl)
    /\ tbl.col[UpperCol("C")][1] = <<15625, 32>>
    /\ tbl.col[UpperCol("RS")][1] = <<3125, 8>>
    /\ tbl.col[UpperCol("Py")][1] = <<15625, 48>>

\* The columns the bandwidth chart of gen plots from the derived table.
PlottedColumns ==
    IF gen = "get" THEN get_bw_columns(tbl) ELSE put_bw_columns(tbl)

HasACasing(df) == UpperCols \subseteq Columns(df) \/ LowerCols \subseteq Columns(df)

\* C2: a table (with size and latency columns and at least one row) that has
\* its bandwidth columns in either casing is left as it is by the deriver of
\* get and of put, and the columns plotted are columns the table was loaded
\* with.
C2_EitherCasingDetected ==
    (applied >= 1 /\ BaseCols \subseteq Columns(tbl0) /\ tbl0.nrows >= 1
        /\ HasACasing(tbl0)) =>
        /\ tbl = tbl0
        /\ \A impl \in Range(Impls) : PlottedColumns[impl] \in Columns(tbl0)

\* C3: a second application of the deriver changes nothing: the table after
\* two applications is the table after one.
C3_Idempotent == [][applied >= 1 => tbl' = tbl]_vars

\* The deriver ran twice on a table loaded without bandwidth columns: the
\* first run added them, the second found them.
C3_Witness ==
    /\ applied = 2
    /\ dexc = "none"
    /\ NoBandwidthColumns(tbl0)
    /\ tbl0.nrows = MaxRows
    /\ UpperCols \subseteq Columns(tbl)
    /\ tbl.col[UpperCol("C")][1] = <<15625, 32>>

\* C7: the derivation leaves no value in a bandwidth column it adds for a row
\* whose latency is <= 0: a table it derives bandwidth for has only positive
\* latencies.
C7_NoBandwidthForNonPositiveLatency ==
    (applied >= 1 /\ BaseCols \subseteq Columns(tbl0)) =>
        \A impl \in Range(Impls) :
            UpperCol(impl) \in Columns(tbl) \ Columns(tbl0) =>
                \A i \in 1..tbl0.nrows : Positive(tbl0.col[RawCol(impl)][i])

----------------------------------------------------------------------------
(* Properties of the driver (Spec) *)

Generators == {"get", "put", "sync"}

\* The call generate_plots makes at pc.
CallAt ==
    IF pc[1] = "get" THEN get_calls[pc[2]]
    ELSE IF pc[1] = "put" THEN put_calls[pc[2]]
    ELSE sync_calls[pc[2]]

Loaded(p) == data[p].kind = "csv"

\* A get or put table with the message size, the three raw latencies and
\* either no bandwidth column or complete sets of them.
HasExpectedColumns(df) ==
    /\ BaseCols \subseteq Columns(df)
    /\ Columns(df) \cap BwCols \in {{}, UpperCols, LowerCols, BwCols}

AsExpected(p) ==
    IF p \in SyncPaths THEN SyncCols \subseteq Columns(data[p].table)
    ELSE HasExpectedColumns(data[p].table)

AllLoadedAsExpected == \A p \in DOMAIN data : Loaded(p) => AsExpected(p)

Scenario(directory) == IF directory = "intranode" THEN "local" ELSE "net"

\* The charts drawn from one input file.
ChartsOfFile(f, d) ==
    IF f = "latency.csv" THEN {"figures/sync/sync_" \o Scenario(d) \o ".pdf"}
    ELSE LET c == IF f = "bw_shmem_get.csv" THEN "get" ELSE "put"
         IN  {"figures/" \o c \o "/" \o c \o "_" \o Scenario(d) \o "_" \o m \o "_" \o s \o ".pdf" :
                 m \in {"latency", "bandwidth"}, s \in {"linear", "log"}}

InputFiles == {"bw_shmem_get.csv", "bw_shmem_put.csv", "latency.csv"}

ExpectedCharts ==
    UNION {IF Loaded(DataPath(f, d)) THEN ChartsOfFile(f, d) ELSE {} :
              f \in InputFiles, d \in Directories}

\* The paths the step from this state to the next wrote.
NewlyWritten == {written'[i] : i \in (Len(written) + 1)..Len(written')}

\* C4: a chart function whose file is missing or cannot be parsed gets None
\* from read_data, returns to its caller without an exception and writes no
\* file.
C4_AbsentFileSkipped ==
    [][(pc[1] \in Generators
            /\ ~Loaded(DataPath(CallAt.filename, CallAt.directory))) =>
        /\ read_data(CallAt.filename, CallAt.directory) = None
        /\ pc' = NextPc(pc[1], pc[2])
        /\ written' = written
        /\ figures' = figures
        /\ dirs' = dirs]_vars

\* A run in which no file loaded, some missing and some malformed: all ten
\* calls were made and nothing was written.
C4_Witness ==
    /\ pc = <<"done", 0>>
    /\ \A p \in DOMAIN data : ~Loaded(p)
    /\ data[DataPath("bw_shmem_get.csv", "intranode")] = Missing
    /\ data[DataPath("bw_shmem_put.csv", "internode")] = Malformed
    /\ Len(loads) = 10
    /\ written = <<>>
    /\ DOMAIN figures = {}

\* C5: when every file that loads has its expected columns, whatever files
\* fail to load, the run raises nothing and, at its end, has entered get, put
\* and sync and written exactly the charts of the files that loaded: four for
\* a get or put file, one for a latency.csv.
C5_LoadFailuresSkipOnlyTheirCharts ==
    AllLoadedAsExpected =>
        /\ pc[1] # "raised"
        /\ pc[1] = "done" =>
              /\ invoked = <<"get", "put", "sync">>
              /\ Range(written) = ExpectedCharts
              /\ DOMAIN figures = ExpectedCharts
              /\ Len(written) =
                    4 * Cardinality({p \in GetPutPaths : Loaded(p)})
                    + Cardinality({p \in SyncPaths : Loaded(p)})

\* A finished run with three files loaded and three not.
C5_Witness ==
    /\ pc = <<"done", 0>>
    /\ AllLoadedAsExpected
    /\ data[DataPath("bw_shmem_get.csv", "intranode")] = Missing
    /\ Loaded(DataPath("bw_shmem_get.csv", "internode"))
    /\ data[DataPath("bw_shmem_put.csv", "intranode")] = Malformed
    /\ Loaded(DataPath("bw_shmem_put.csv", "internode"))
    /\ Loaded(DataPath("latency.csv", "intranode"))
    /\ data[DataPath("latency.csv", "internode")] = Missing
    /\ Len(written) = 9

PutAndSyncCharts ==
    UNION {ChartsOfFile(f, d) : f \in {"bw_shmem_put.csv", "latency.csv"},
                                d \in Directories}

\* C6: when a get table lacks a column while the put and sync files load with
\* theirs, the run still enters put and sync and writes their charts.
C6_OtherGeneratorsStillRun ==
    (/\ pc[1] \in {"done", "raised"}
     /\ \E d \in Directories :
           /\ Loaded(DataPath("bw_shmem_get.csv", d))
           /\ ~(BaseCols \subseteq Columns(data[DataPath("bw_shmem_get.csv", d)].table))
     /\ \A f \in {"bw_shmem_put.csv", "latency.csv"}, d \in Directories :
           Loaded(DataPath(f, d)) /\ AsExpected(DataPath(f, d))) =>
        /\ {"put", "sync"} \subseteq Range(invoked)
        /\ PutAndSyncCharts \subseteq Range(written)

\* C8: a latency or bandwidth chart function of get or put writes only files
\* figures/c/c_p_m_s.pdf, c its category, p its scenario prefix, m its metric
\* and s linear or log; the latency call for the local scenario of get, its
\* table loaded with the expected columns, writes get_local_latency_linear.pdf
\* and get_local_latency_log.pdf under figures/get/ and nothing else.
C8_OutputNaming ==
    [][pc[1] \in {"get", "put"} =>
        /\ NewlyWritten \subseteq
              {"figures/" \o pc[1] \o "/" \o pc[1] \o "_" \o CallAt.prefix \o "_"
                  \o CallAt.fn \o "_" \o s \o ".pdf" : s \in {"linear", "log"}}
        /\ DOMAIN figures' = DOMAIN figures \cup NewlyWritten
        /\ (/\ pc = <<"get", 1>>
            /\ Loaded(DataPath("bw_shmem_get.csv", "intranode"))
            /\ HasExpectedColumns(data[DataPath("bw_shmem_get.csv", "intranode")].table)) =>
              NewlyWritten = {"figures/get/get_local_latency_linear.pdf",
                              "figures/get/get_local_latency_log.pdf"}]_vars

\* The first call of get has returned over a tree that held stale files.
C8_Witness ==
    /\ pc = <<"get", 2>>
    /\ before # {}
    /\ written = <<"figures/get/get_local_latency_linear.pdf",
                   "figures/get/get_local_latency_log.pdf">>
    /\ DOMAIN figures = Range(written)

CategoryCharts(c) ==
    {"figures/" \o c \o "/" \o c \o "_" \o p \o "_" \o m \o "_" \o s \o ".pdf" :
        p \in {"local", "net"}, m \in {"latency", "bandwidth"}, s \in {"linear", "log"}}

BothAsExpected(f) ==
    \A d \in Directories :
        Loaded(DataPath(f, d)) /\ HasExpectedColumns(data[DataPath(f, d)].table)

\* What a finished generator of category c left: eight writes, to the eight
\* paths of CategoryCharts(c), all of them files.
WroteEight(c) ==
    /\ Cardinality(CategoryCharts(c)) = 8
    /\ Cardinality({i \in 1..Len(written) : IsPrefix("figures/" \o c \o "/", written[i])}) = 8
    /\ {p \in Range(written) : IsPrefix("figures/" \o c \o "/", p)} = CategoryCharts(c)
    /\ {p \in DOMAIN figures : IsPrefix("figures/" \o c \o "/", p)} = CategoryCharts(c)

\* C9: once the get generator has returned, both its files loaded with the
\* expected columns, it has written exactly eight files: per scenario a
\* latency and a bandwidth chart, each linear and log; likewise put.
C9_EightChartsPerCategory ==
    /\ (pc[1] \in {"put", "sync", "done"} /\ BothAsExpected("bw_shmem_get.csv")) =>
          WroteEight("get")
    /\ (pc[1] \in {"sync", "done"} /\ BothAsExpected("bw_shmem_put.csv")) =>
          WroteEight("put")

\* get and put have both returned, each with its two files loaded.
C9_Witness ==
    /\ pc = <<"sync", 1>>
    /\ BothAsExpected("bw_shmem_get.csv")
    /\ BothAsExpected("bw_shmem_put.csv")
    /\ data[DataPath("bw_shmem_get.csv", "intranode")].table = T_lower
    /\ data[DataPath("bw_shmem_put.csv", "internode")].table = T_plain
    /\ Len(written) = 16

\* C10: when the run has ended, the files under figures/ are the files this
\* run wrote, whatever figures/ held before; none is a file of an earlier run.
C10_OutputReplaced ==
    pc[1] \in {"done", "raised"} =>
        /\ DOMAIN figures = Range(written)
        /\ \A p \in DOMAIN figures : figures[p] # Stale
        /\ dirs \subseteq {"figures", "figures/get", "figures/put", "figures/sync"}

\* A full run over a tree that held a stale chart of the same name and a
\* stale chart no run writes.
C10_Witness ==
    /\ pc = <<"done", 0>>
    /\ before = {"figures/get/get_local_latency_log.pdf", "figures/old/sync_all.pdf"}
    /\ Len(written) = 18
    /\ "figures/get/get_local_latency_log.pdf" \in DOMAIN figures
    /\ "figures/old/sync_all.pdf" \notin DOMAIN figures

----------------------------------------------------------------------------
(* Properties of the sync chart (Spec) *)

DigitChars == <<"0", "1", "2", "3", "4", "5", "6", "7", "8", "9">>

IsDigit(ch) == ch \in Range(DigitChars)

DigitValue(ch) == (CHOOSE k \in 1..10 : DigitChars[k] = ch) - 1

CharAt(s, i) == SubSeq(s, i, i)

\* The number a string of digits writes.
RECURSIVE ParseNat(_)
ParseNat(s) ==
    IF Len(s) = 0 THEN 0
    ELSE ParseNat(SubSeq(s, 1, Len(s) - 1)) * 10 + DigitValue(CharAt(s, Len(s)))

\* text is digits, a point, exactly two digits and a percent sign.
IsTwoDecimalPercent(text) ==
    /\ Len(text) >= 5
    /\ CharAt(text, Len(text)) = "%"
    /\ CharAt(text, Len(text) - 3) = "."
    /\ \A i \in (1..(Len(text) - 4)) \cup {Len(text) - 2, Len(text) - 1} :
          IsDigit(CharAt(text, i))

\* The hundredths text writes.
HundredthsOf(text) ==
    ParseNat(SubSeq(text, 1, Len(text) - 4)) * 100
        + ParseNat(SubSeq(text, Len(text) - 2, Len(text) - 1))

\* text writes the value v >= 0 rounded to two decimal places.
WritesToTwoPlaces(text, v) ==
    /\ IsTwoDecimalPercent(text)
    /\ 2 * Abs(HundredthsOf(text) * v[2] - 100 * v[1]) <= v[2]

SyncChartPath(prefix) == "figures/sync/sync_" \o prefix \o ".pdf"

\* The bars and labels of one alternate implementation are the ratio times
\* 100 and that percentage to two decimal places.
AlternateBars(bars, texts, ratios, n) ==
    /\ Len(bars) = n /\ Len(texts) = n
    /\ \A i \in 1..n :
          /\ bars[i] = Rat(ratios[i][1] * 100, ratios[i][2])
          /\ WritesToTwoPlaces(texts[i], bars[i])
          /\ ratios[i] = <<27, 20>> => texts[i] = "135.00%"
          /\ ratios[i] = <<4, 5>> => texts[i] = "80.00%"

\* C11: in every sync chart written, each routine row has a C bar of height
\* 100 labelled "100.00%", and an RS and a Py bar of height ratio * 100
\* labelled with that percentage to exactly two decimal places; the ratios
\* 1.35 and 0.80 are labelled "135.00%" and "80.00%".
C11_SyncBarsAndLabels ==
    \A k \in 1..Len(sync_calls) :
        LET c    == sync_calls[k]
            path == SyncChartPath(c.prefix)
        IN  (pc[1] \in {"sync", "done", "raised"} /\ path \in DOMAIN figures) =>
                LET df  == data[DataPath(c.filename, c.directory)].table
                    fig == figures[path]
                    n   == df.nrows
                IN  /\ Len(fig.c_bars) = n /\ Len(fig.c_text) = n
                    /\ \A i \in 1..n : fig.c_bars[i] = <<100, 1>> /\ fig.c_text[i] = "100.00%"
                    /\ AlternateBars(fig.rs_bars, fig.rs_text, df.col["RS (normalized)"], n)
                    /\ AlternateBars(fig.py_bars, fig.py_text, df.col["Py (normalized)"], n)

\* The local sync chart of the sample table: 1.35 and 0.80 in its first row,
\* 0.12345 and 1/3 in its third (12.345 as a double lies above the tie and
\* prints 12.35), 1.23455 in its fourth (123.455 lies below and prints
\* 123.45).
C11_Witness ==
    /\ pc = <<"done", 0>>
    /\ SyncChartPath("local") \in DOMAIN figures
    /\ LET fig == figures[SyncChartPath("local")]
       IN  /\ fig.c_text = <<"100.00%", "100.00%", "100.00%", "100.00%", "100.00%">>
           /\ fig.rs_text = <<"135.00%", "100.00%", "12.35%", "50.00%", "200.00%">>
           /\ fig.py_text = <<"80.00%", "250.00%", "33.33%", "123.45%", "100.00%">>
           /\ fig.rs_bars[1] = <<135, 1>>
           /\ fig.py_bars[1] = <<80, 1>>

----------------------------------------------------------------------------
(* The writer applied to a tree, once and again *)

MaxSaves == 2

Categories == {"get", "sync"}
WriterNames == {"get_local_latency_log.pdf", "sync_net.pdf"}

\* Two charts that differ.
WriterCharts == {LineChart(T_plain, "shmem_get Latency", "log", RawCols),
                 LineChart(T_plain, "shmem_get Latency", "linear", RawCols)}

\* What exists before a save: no figures directory, the directory alone, a
\* category directory, or a category directory holding a file under a name
\* the harness writes.
WriterTrees ==
    { [dirs |-> {}, figures |-> NoFiles],
      [dirs |-> {"figures"}, figures |-> NoFiles],
      [dirs |-> {"figures", "figures/sync"}, figures |-> NoFiles],
      [dirs |-> {"figures", "figures/get"},
       figures |-> [p \in {"figures/get/get_local_latency_log.pdf"} |-> Stale]] }

InitWriter ==
    /\ data = [p \in GetPutPaths \cup SyncPaths |-> Missing]
    /\ \E t \in WriterTrees : dirs = t.dirs /\ figures = t.figures
    /\ before = DOMAIN figures
    /\ pc = <<"writer", 0>>
    /\ written = <<>>
    /\ loads = <<>>
    /\ invoked = <<>>
    /\ styled = 0
    /\ DeriverIdle

\* utils.py:196-211 applied to the tree
save_plot_call ==
    /\ pc = <<"writer", 0>>
    /\ Len(written) < MaxSaves
    /\ \E fig \in WriterCharts, filename \in WriterNames, category \in Categories :
          LET w == save_plot(World, fig, filename, category)
          IN  /\ dirs' = w.dirs
              /\ figures' = w.figures
              /\ written' = w.written
    /\ UNCHANGED <<data, pc, loads, invoked, styled, before>>
    /\ UNCHANGED deriverVars

NextWriter == save_plot_call

SpecWriter == InitWriter /\ [][NextWriter]_vars

----------------------------------------------------------------------------
(* Properties of the writer (SpecWriter) *)

\* C12: from every tree, save_plot(fig, filename, category) leaves the
\* directory figures/<category> existing, whether or not it existed before,
\* and the file figures/<category>/<filename> holding fig, whatever file of
\* that name existed before; and the file last written in a run holds a
\* chart and lies in an existing directory.
C12_SavePlotWritesFile ==
    /\ \A fig \in WriterCharts, filename \in WriterNames, category \in Categories :
          LET w == save_plot(World, fig, filename, category)
              category_dir == "figures/" \o category
              filepath == "figures/" \o category \o "/" \o filename
          IN  /\ {"figures", category_dir} \subseteq w.dirs
              /\ filepath \in DOMAIN w.figures
              /\ w.figures[filepath] = fig
    /\ Len(written) >= 1 =>
          LET filepath == written[Len(written)]
          IN  /\ filepath \in DOMAIN figures
              /\ figures[filepath] \in WriterCharts
              /\ \E category \in Categories : "figures/" \o category \in dirs
                    /\ IsPrefix("figures/" \o category \o "/", filepath)

\* One save replaced the file an earlier run left under the same name.
C12_Witness ==
    /\ pc = <<"writer", 0>>
    /\ Len(written) = 1
    /\ written[1] \in before
    /\ figures[written[1]] \in WriterCharts

----------------------------------------------------------------------------
(* Frame of the metric deriver (SpecDeriver) *)

\* Every column of df0 is a column of df with the same values, in the same
\* position, and the rows are as many.
KeepsColumnsAndRows(df0, df) ==
    /\ df.nrows = df0.nrows
    /\ Len(df.columns) >= Len(df0.columns)
    /\ SubSeq(df.columns, 1, Len(df0.columns)) = df0.columns
    /\ \A c \in Columns(df0) : df.col[c] = df0.col[c]

\* The columns of df that df0 lacks are bandwidth columns.
AddsOnlyBandwidth(df0, df) == Columns(df) \ Columns(df0) \subseteq UpperCols

\* The bandwidth names of a table are all three of a casing, or none.
AllOrNone(df) ==
    /\ Columns(df) \cap UpperCols \in {{}, UpperCols}
    /\ Columns(df) \cap LowerCols \in {{}, LowerCols}

\* C13: for every table with the size and latency columns, after the
\* derivation every column the table had is still there with its values, the
\* rows are as many and in the same order, and only bandwidth columns are new.
C13_DerivationOnlyAdds ==
    (BaseCols \subseteq Columns(tbl0) /\ applied >= 1) =>
        KeepsColumnsAndRows(tbl0, tbl) /\ AddsOnlyBandwidth(tbl0, tbl)

\* The same for the tables whose bandwidth names are all three of a casing or
\* none: what the frame does hold for.
FrameOnAllOrNone ==
    (BaseCols \subseteq Columns(tbl0) /\ AllOrNone(tbl0) /\ applied >= 1) =>
        KeepsColumnsAndRows(tbl0, tbl) /\ AddsOnlyBandwidth(tbl0, tbl)

----------------------------------------------------------------------------
(* Order of the driver's steps (Spec) *)

\* 1, 2, 3 for a chart of get, put, sync.
GeneratorRank(path) ==
    IF IsPrefix("figures/get/", path) THEN 1
    ELSE IF IsPrefix("figures/put/", path) THEN 2
    ELSE 3

\* 1 for a chart of the intranode scenario, 2 for one of the internode one.
ScenarioRank(path) ==
    IF \E g \in {"get", "put", "sync"} :
           IsPrefix("figures/" \o g \o "/" \o g \o "_local", path)
    THEN 1 ELSE 2

\* The data files in the order a run reads them.
LoadOrder ==
    << DataPath("bw_shmem_get.csv", "intranode"), DataPath("bw_shmem_get.csv", "internode"),
       DataPath("bw_shmem_put.csv", "intranode"), DataPath("bw_shmem_put.csv", "internode"),
       DataPath("latency.csv", "intranode"), DataPath("latency.csv", "internode") >>

LoadRank(path) == CHOOSE k \in 1..Len(LoadOrder) : LoadOrder[k] = path

\* C14: nothing is styled or written before the output directory is reset,
\* nothing is written before the style is initialised, the style is
\* initialised exactly once, the generators are entered in the order get,
\* put, sync, and the charts written and the files read follow that order,
\* intranode before internode within a generator.
C14_StepOrder ==
    /\ pc = <<"main", 1>> => styled = 0 /\ written = <<>> /\ loads = <<>> /\ invoked = <<>>
    /\ pc = <<"main", 2>> =>
          /\ styled = 0 /\ written = <<>> /\ loads = <<>> /\ invoked = <<>>
          /\ "figures" \in dirs /\ DOMAIN figures = {}
    /\ pc[1] \in {"get", "put", "sync", "done", "raised"} => styled = 1
    /\ \E k \in 0..3 : invoked = SubSeq(<<"get", "put", "sync">>, 1, k)
    /\ \A i, j \in 1..Len(written) :
          i < j =>
             /\ GeneratorRank(written[i]) <= GeneratorRank(written[j])
             /\ GeneratorRank(written[i]) = GeneratorRank(written[j]) =>
                   ScenarioRank(written[i]) <= ScenarioRank(written[j])
    /\ \A i, j \in 1..Len(loads) : i < j => LoadRank(loads[i]) <= LoadRank(loads[j])
    /\ \A i \in 1..Len(written) :
          \E m \in 1..Len(invoked) :
             invoked[m] = <<"get", "put", "sync">>[GeneratorRank(written[i])]

\* A whole run: one styling, three generators, eighteen charts, the last of
\* get written before the first of put and the last of put before sync's.
C14_Witness ==
    /\ pc = <<"done", 0>>
    /\ styled = 1
    /\ invoked = <<"get", "put", "sync">>
    /\ Len(written) = 18
    /\ GeneratorRank(written[8]) = 1 /\ GeneratorRank(written[9]) = 2
    /\ GeneratorRank(written[16]) = 2 /\ GeneratorRank(written[17]) = 3
    /\ ScenarioRank(written[17]) = 1 /\ ScenarioRank(written[18]) = 2

----------------------------------------------------------------------------
(* Each call loads its own table (Spec) *)

EmptyWorld == [dirs |-> {}, figures |-> NoFiles, written |-> <<>>,
               loads |-> <<>>, exc |-> "none"]

CallsOf(module) ==
    IF module = "get" THEN get_calls
    ELSE IF module = "put" THEN put_calls
    ELSE sync_calls

\* What the call c of a generator does when nothing ran before it.
CallAlone(module, c) ==
    IF module = "get" THEN
        (IF c.fn = "latency"
         THEN get_generate_latency_plot(EmptyWorld, c.filename, c.directory, c.prefix)
         ELSE get_generate_bandwidth_plot(EmptyWorld, c.filename, c.directory, c.prefix))
    ELSE IF module = "put" THEN
        (IF c.fn = "latency"
         THEN put_generate_latency_plot(EmptyWorld, c.filename, c.directory, c.prefix)
         ELSE put_generate_bandwidth_plot(EmptyWorld, c.filename, c.directory, c.prefix))
    ELSE generate_sync_plot(EmptyWorld, c.filename, c.directory, c.prefix)

\* The loader calls of a run that reaches the end of main().
TenLoads ==
    << DataPath("bw_shmem_get.csv", "intranode"), DataPath("bw_shmem_get.csv", "intranode"),
       DataPath("bw_shmem_get.csv", "internode"), DataPath("bw_shmem_get.csv", "internode"),
       DataPath("bw_shmem_put.csv", "intranode"), DataPath("bw_shmem_put.csv", "intranode"),
       DataPath("bw_shmem_put.csv", "internode"), DataPath("bw_shmem_put.csv", "internode"),
       DataPath("latency.csv", "intranode"), DataPath("latency.csv", "internode") >>

\* C15: every step of a generator is one chart function calling the loader
\* once, for its own file; every chart the step writes is the chart that
\* call draws on its own from the file as it is on disk, whatever calls ran
\* before it; the files under data/ stay as they are; and a run that reaches
\* the end of main() has called the loader ten times, four for get, four for
\* put and two for sync.
C15_FreshLoadPerCall ==
    [][pc[1] \in Generators =>
        LET c     == CallAt
            alone == CallAlone(pc[1], c)
        IN  /\ loads' = Append(loads, DataPath(c.filename, c.directory))
            /\ alone.loads = <<DataPath(c.filename, c.directory)>>
            /\ alone.written = SubSeq(written', Len(written) + 1, Len(written'))
            /\ \A p \in NewlyWritten : figures'[p] = alone.figures[p]
            /\ data' = data
            /\ pc' = <<"done", 0>> =>
                  /\ loads' = TenLoads
                  /\ Len(loads') = 10
                  /\ Cardinality({i \in 1..10 : LoadRank(loads'[i]) \in {1, 2}}) = 4
                  /\ Cardinality({i \in 1..10 : LoadRank(loads'[i]) \in {3, 4}}) = 4
                  /\ Cardinality({i \in 1..10 : LoadRank(loads'[i]) \in {5, 6}}) = 2]_vars

\* A full run with all six files present, the get tables without bandwidth
\* columns, so that both get bandwidth calls derived them.
C15_Witness ==
    /\ pc = <<"done", 0>>
    /\ \A p \in DOMAIN data : Loaded(p)
    /\ \A d \in Directories : data[DataPath("bw_shmem_get.csv", d)] = Csv(T_plain)
    /\ Len(loads) = 10
    /\ Len(written) = 18

----------------------------------------------------------------------------
(* The x-axis labels of the sync chart (Spec) *)

\* label is routine without one leading "shmem_", or routine itself when it
\* has no such prefix, with atomic_compare_swap written atomic_cswap.
IsLabelOf(label, routine) ==
    LET names == {label} \cup (IF label = "atomic_cswap"
                               THEN {"atomic_compare_swap"} ELSE {})
    IN  /\ label # "atomic_compare_swap"
        /\ \E name \in names :
              IF IsPrefix("shmem_", routine)
              THEN routine = "shmem_" \o name
              ELSE routine = name

\* C16: every sync chart written has one x-axis label per routine row, in row
\* order; the label is the routine name without one leading "shmem_" when it
\* has one and the name itself otherwise, and atomic_compare_swap is shown
\* as atomic_cswap.
C16_SyncAxisLabels ==
    \A k \in 1..Len(sync_calls) :
        LET c    == sync_calls[k]
            path == SyncChartPath(c.prefix)
        IN  (pc[1] \in {"sync", "done", "raised"} /\ path \in DOMAIN figures) =>
                LET routines == data[DataPath(c.filename, c.directory)].table.col["Routine"]
                    labels   == figures[path].xticklabels
                IN  /\ Len(labels) = Len(routines)
                    /\ \A i \in 1..Len(routines) :
                          /\ IsLabelOf(labels[i], routines[i])
                          /\ routines[i] = "shmem_atomic_compare_swap" => labels[i] = "atomic_cswap"
                          /\ routines[i] = "shmem_shmem_quiet" => labels[i] = "shmem_quiet"
                          /\ routines[i] = "quiet" => labels[i] = "quiet"

\* The net sync chart of the sample table: a prefixed name, the renamed one
\* with and without prefix, a name without prefix and a doubled prefix.
C16_Witness ==
    /\ pc = <<"done", 0>>
    /\ SyncChartPath("net") \in DOMAIN figures
    /\ data[DataPath("latency.csv", "internode")].table.col["Routine"] =
          <<"shmem_barrier_all", "shmem_atomic_compare_swap", "quiet",
            "shmem_shmem_quiet", "atomic_compare_swap">>
    /\ figures[SyncChartPath("net")].xticklabels =
          <<"barrier_all", "atomic_cswap", "quiet", "shmem_quiet", "atomic_cswap">>

----------------------------------------------------------------------------
(* The columns put.py plots (SpecDeriver) *)

\* C17: for every table with rows and the size and latency columns, whatever bandwidth
\* names it holds, after put's derivation each of the three columns put.py
\* selects for plotting is a column of the table.
C17_PutPlotsExistingColumns ==
    (gen = "put" /\ BaseCols \subseteq Columns(tbl0) /\ tbl0.nrows >= 1 /\ applied >= 1) =>
        \A impl \in Range(Impls) : put_bw_columns(tbl)[impl] \in Columns(tbl)

\* The same for the tables whose bandwidth names are all three of a casing or
\* none: there the selected columns exist.
PutPlotsExistingOnAllOrNone ==
    (gen = "put" /\ BaseCols \subseteq Columns(tbl0) /\ AllOrNone(tbl0) /\ applied >= 1) =>
        \A impl \in Range(Impls) : put_bw_columns(tbl)[impl] \in Columns(tbl)

----------------------------------------------------------------------------
(* The output paths of one run (Spec) *)

\* C18: the paths a run writes are pairwise distinct, so no chart of the run
\* is replaced by a later one: once the output directory is reset, the files
\* under figures/ are exactly the charts written so far, as many as were
\* drawn; a run that reaches the end with every file loaded as expected has
\* written the eight paths of get, the eight of put and the two of sync.
C18_DistinctOutputPaths ==
    /\ \A i, j \in 1..Len(written) : i # j => written[i] # written[j]
    /\ pc # <<"main", 1>> =>
          /\ DOMAIN figures = Range(written)
          /\ Cardinality(DOMAIN figures) = Len(written)
    /\ (pc = <<"done", 0>> /\ AllLoadedAsExpected /\ \A p \in DOMAIN data : Loaded(p)) =>
          /\ Range(written) = CategoryCharts("get") \cup CategoryCharts("put")
                                 \cup {SyncChartPath("local"), SyncChartPath("net")}
          /\ Len(written) = 18

\* A full run over a tree that held stale files: eighteen charts written,
\* eighteen files under figures/.
C18_Witness ==
    /\ pc = <<"done", 0>>
    /\ before # {}
    /\ Len(written) = 18
    /\ Cardinality(DOMAIN figures) = 18
    /\ Cardinality(Range(written)) = 18

====
